---- MODULE Spec2Model ----
(***************************************************************************)
(* Model of weather_data.py: the two providers WeatherDataAPI (NOAA REST   *)
(* service) and BigQueryWeatherDataAPI (GHCN-D tables in BigQuery), their  *)
(* get_weather_data / get_min_temps / get_max_temps / get_avg_temps /      *)
(* get_daily_temps methods, and the pandas operations they use.            *)
(*                                                                         *)
(* Abstractions, stated once:                                              *)
(*  - a calendar date is a day ordinal 1..MaxDate; a year has DaysPerYear  *)
(*    days; the ISO text of a date is the pair <<year, day of year>>;      *)
(*  - a float64 is an exact fraction <<numerator, denominator>> in lowest  *)
(*    terms, NaN is <<0, 0>>; IEEE rounding is not modelled;               *)
(*  - a DataFrame is [kind, columns, rows]; a date-indexed one-column      *)
(*    frame is [kind, name, index, values]; the combined table is keyed by *)
(*    date (the order of its rows is not modelled);                        *)
(*  - the archive both services read is the variable store; the NOAA       *)
(*    service answers from it with any status and, for status 200, with    *)
(*    the rows of the requested range.                                     *)
(***************************************************************************)
EXTENDS Integers, Sequences, FiniteSets, TLC

\* ------------------------------------------------------------- bounds
MaxDate == 3
DaysPerYear == 2
MaxStoreSize == 3
MaxRaw == 260

\* ---------------------------------------------------------- constants
ATL_STATION_CODE == "USW00013874"
OtherStation == "USW00094789"
Stations == {ATL_STATION_CODE, OtherStation}
DataTypes == {"TMIN", "TMAX", "TAVG"}
NULL == "NULL"
QFlags == {NULL, "I"}
HttpStatuses == {200, 204, 500}

Dates == 1..MaxDate

\* datetime.date.year
year(d) == 2023 + (d - 1) \div DaysPerYear

\* datetime.date.isoformat() / str(date): the ISO text of a date
isoformat(d) == <<year(d), ((d - 1) % DaysPerYear) + 1>>

\* the parse of an ISO text back to a date (astype('datetime64'), SQL DATE literal)
to_datetime(s) == (s[1] - 2023) * DaysPerYear + s[2]

\* str.lower() on the data type
lower(data_type) ==
  CASE data_type = "TMIN" -> "tmin"
    [] data_type = "TMAX" -> "tmax"
    [] data_type = "TAVG" -> "tavg"

\* ------------------------------------------------------------ float64
NaN == <<0, 0>>

Abs(n) == IF n < 0 THEN -n ELSE n

RECURSIVE Gcd(_, _)
Gcd(a, b) == IF b = 0 THEN a ELSE Gcd(b, a % b)

Frac(n, d) == LET g == Gcd(Abs(n), d) IN <<n \div g, d \div g>>

\* float(v) of a whole number v
Float(v) == Frac(v, 1)

FDiv(x, k) == IF x[2] = 0 THEN NaN ELSE Frac(x[1], x[2] * k)
FMul(x, k) == IF x[2] = 0 THEN NaN ELSE Frac(x[1] * k, x[2])
FAdd(x, k) == IF x[2] = 0 THEN NaN ELSE Frac(x[1] + k * x[2], x[2])

\* ---------------------------------------------------------- the archive
\* The value (tenths of a degree Celsius) the archive holds for a day and element.
ArchiveValue(d, e) ==
  100 * d + (CASE e = "TMIN" -> -89 [] e = "TMAX" -> 50 [] e = "TAVG" -> -70)

\* One stored GHCN-D observation of the Atlanta station, quality-flagged or not.
ArchiveRow(d, e, q) ==
  [id |-> ATL_STATION_CODE, date |-> d, element |-> e,
   value |-> ArchiveValue(d, e), qflag |-> q]

\* The archives considered: one observation at most per station, day and
\* element, each with or without a quality flag; an archive's size counts its
\* observations and its quality flags, and is at most MaxStoreSize.
Stores ==
  UNION { { { ArchiveRow(c[1], c[2], f[c]) : c \in C } :
              f \in { g \in [C -> QFlags] :
                        Cardinality(C) + Cardinality({ c \in C : g[c] # NULL })
                          <= MaxStoreSize } } :
            C \in { D \in SUBSET (Dates \X DataTypes) : Cardinality(D) <= MaxStoreSize } }

VARIABLES store, pc, provider, start_date, end_date, station,
          min_temps, max_temps, avg_temps, result, error, calls, last,
          cpc, cout

vars == <<store, pc, provider, start_date, end_date, station,
          min_temps, max_temps, avg_temps, result, error, calls, last,
          cpc, cout>>

\* ------------------------------------------------------------- pandas
Range(q) == { q[i] : i \in 1..Len(q) }

\* pd.DataFrame(list of dicts): the columns are the union of the rows' keys
DataFrame(rows) ==
  [kind |-> "frame", columns |-> UNION { DOMAIN rows[i] : i \in 1..Len(rows) },
   rows |-> rows]

\* a raised exception
Raise(type, what) == [kind |-> "raise", type |-> type, what |-> what]

NoFrame == [kind |-> "none", name |-> "", index |-> <<>>, values |-> <<>>]
NoTable == [kind |-> "none"]
NoError == [kind |-> "none"]

\* df.set_index(['date']) of the two columns built from a response
Indexed(name, index, values) ==
  [kind |-> "frame", name |-> name, index |-> index, values |-> values]

\* the label lookup of a one-column frame: its value at date d, NaN when absent
Shifted(f, d) ==
  IF \E i \in 2..Len(f.index) : f.index[i] = d
    THEN f.values[(CHOOSE i \in 2..Len(f.index) : f.index[i] = d) - 1]
    ELSE NaN

Lookup(f, d) ==
  IF \E i \in 1..Len(f.index) : f.index[i] = d
    THEN f.values[CHOOSE i \in 1..Len(f.index) : f.index[i] = d]
    ELSE NaN

\* the row labels of pd.concat(..., axis=1): join='outer' is the default
InnerIndex(frames) ==
  { d \in Range(frames[1].index) : \A k \in 1..Len(frames) : d \in Range(frames[k].index) }

ConcatIndex(frames) == UNION { Range(frames[k].index) : k \in 1..Len(frames) }

\* pd.concat([min_temps, max_temps, avg_temps], axis=1)
concat(frames) ==
  [kind |-> "table",
   columns |-> [k \in 1..Len(frames) |-> frames[k].name],
   rows |-> [d \in ConcatIndex(frames) |->
               [k \in 1..Len(frames) |-> Lookup(frames[k], d)]]]

\* ------------------------------------------------- the NOAA REST service
\* The rows the service answers with, by ascending date from lo to hi: one per
\* day that has the requested data type (dense: one per day that has any datum
\* of the station, without the data type's key when that day lacks it).
RECURSIVE ServiceRows(_, _, _, _, _)
ServiceRows(st, data_type, lo, hi, dense) ==
  IF lo > hi THEN <<>>
  ELSE LET day == { r \in store : r.id = st /\ r.date = lo }
           hit == { r \in day : r.element = data_type }
           head == ("DATE" :> isoformat(lo)) @@ ("STATION" :> st)
           row  == IF hit = {} THEN head
                   ELSE head @@ (data_type :> (CHOOSE r \in hit : TRUE).value)
       IN  (IF hit # {} \/ (dense /\ day # {}) THEN <<row>> ELSE <<>>)
             \o ServiceRows(st, data_type, lo + 1, hi, dense)

\* requests.get(BASE_URL, params): net is what the network and service decide
requests_get(params, net) ==
  IF net.status = 200
    THEN [status_code |-> 200,
          content |-> ServiceRows(params.stations, params.dataTypes,
                                  to_datetime(params.startDate),
                                  to_datetime(params.endDate), net.dense)]
    ELSE [status_code |-> net.status,
          content |-> <<("errorMessage" :> "request failed") @@ ("errorCode" :> net.status)>>]

RestNets == [status : HttpStatuses, dense : BOOLEAN]

\* ------------------------------------------------------ WeatherDataAPI
RestParams(start, end, data_type, st) ==
  [dataset |-> "daily-summaries", dataTypes |-> data_type, stations |-> st,
   startDate |-> isoformat(start), endDate |-> isoformat(end), format |-> "json"]

StatusOk2xx(code) == code \div 100 = 2

StatusOk(code) == code = 200

WeatherDataAPI_get_weather_data(start, end, data_type, st, net) ==
  LET body == requests_get(RestParams(start, end, data_type, st), net)
  IN  IF StatusOk(body.status_code)
        THEN DataFrame(body.content)
        ELSE Raise("Exception", body.content)

\* results[column]: KeyError when the frame has no such column
HasColumns(results, cols) == \A c \in cols : c \in results.columns

FirstMissing(results, cols) ==
  cols[CHOOSE i \in 1..Len(cols) :
         /\ cols[i] \notin results.columns
         /\ \A j \in 1..(i - 1) : cols[j] \in results.columns]

\* results['DATE'].astype('datetime64')
RestDates(results) ==
  [i \in 1..Len(results.rows) |-> to_datetime(results.rows[i]["DATE"])]

WrongFahrenheit(v) == FAdd(FDiv(FMul(FDiv(Float(v), 10), 5), 9), 32)

\* float64(v) / 10 * 9 / 5 + 32
WeatherDataAPI_fahrenheit(v) == FAdd(FDiv(FMul(FDiv(Float(v), 10), 9), 5), 32)

\* results[column].astype('float64') / 10 * 9 / 5 + 32
RestValues(results, column) ==
  [i \in 1..Len(results.rows) |->
     IF column \in DOMAIN results.rows[i]
       THEN WeatherDataAPI_fahrenheit(results.rows[i][column])
       ELSE NaN]

RestTemps(results, column, name) ==
  IF results.kind = "raise" THEN results
  ELSE IF ~HasColumns(results, {"DATE", column})
    THEN Raise("KeyError", FirstMissing(results, <<"DATE", column>>))
  ELSE Indexed(name, RestDates(results), RestValues(results, column))

WeatherDataAPI_get_min_temps(start, end, st, net) ==
  RestTemps(WeatherDataAPI_get_weather_data(start, end, "TMIN", st, net),
            "TMIN", "minTemp")

WeatherDataAPI_get_max_temps(start, end, st, net) ==
  RestTemps(WeatherDataAPI_get_weather_data(start, end, "TMAX", st, net),
            "TMAX", "maxTemp")

WeatherDataAPI_get_avg_temps(start, end, st, net) ==
  RestTemps(WeatherDataAPI_get_weather_data(start, end, "TAVG", st, net),
            "TAVG", "avgTemp")

\* ----------------------------------------------- the BigQuery warehouse
AllTables(y) == store

\* The table `bigquery-public-data.ghcn_d.ghcnd_<y>`: the observations of year y
Table(y) == { r \in store : year(r.date) = y }

\* ORDER BY wx.date
RECURSIVE OrderByDate(_)
OrderByDate(S) ==
  IF S = {} THEN <<>>
  ELSE LET m == CHOOSE r \in S : \A q \in S : r.date <= q.date
       IN  <<m>> \o OrderByDate(S \ {m})

\* WHERE id = .. AND qflag IS NULL AND element = .. AND wx.date>=.. AND wx.date<=..
Where(r, query) ==
  /\ r.id = query.id
  /\ r.qflag = NULL
  /\ r.element = query.element
  /\ r.date >= to_datetime(query.lo)
  /\ r.date <= to_datetime(query.hi)

\* SELECT wx.date AS date, wx.value/10.0 AS <column>
Select(r, query) ==
  ("date" :> r.date) @@ (query.column :> FDiv(Float(r.value), 10))

\* CLIENT.query(query).to_dataframe(): net is whether the job runs or fails
CLIENT_query(query, net) ==
  IF net = "error"
    THEN Raise("GoogleAPIError", <<"query failed">>)
    ELSE LET hits == OrderByDate({ r \in Table(query.table) : Where(r, query) })
         IN  [kind |-> "frame", columns |-> {"date", query.column},
              rows |-> [i \in 1..Len(hits) |-> Select(hits[i], query)]]

BqNets == {"ok", "error"}

\* ------------------------------------------------ BigQueryWeatherDataAPI
BqQuery(start, end, data_type, st) ==
  [column |-> lower(data_type), table |-> year(start), id |-> st,
   element |-> data_type, lo |-> isoformat(start), hi |-> isoformat(end)]

BigQueryWeatherDataAPI_get_weather_data(start, end, data_type, st, net) ==
  CLIENT_query(BqQuery(start, end, data_type, st), net)

\* results['date'].astype('datetime64[ns]')
BqDates(results) == [i \in 1..Len(results.rows) |-> results.rows[i]["date"]]

TenthsFahrenheit(x) == FAdd(FDiv(FMul(FDiv(x, 10), 9), 5), 32)

\* float64(x) * 9 / 5 + 32
BigQueryWeatherDataAPI_fahrenheit(x) == FAdd(FDiv(FMul(x, 9), 5), 32)

BqValues(results, column) ==
  [i \in 1..Len(results.rows) |->
     BigQueryWeatherDataAPI_fahrenheit(results.rows[i][column])]

BqTemps(results, column, name) ==
  IF results.kind = "raise" THEN results
  ELSE IF ~HasColumns(results, {"date", column})
    THEN Raise("KeyError", FirstMissing(results, <<"date", column>>))
  ELSE Indexed(name, BqDates(results), BqValues(results, column))

BigQueryWeatherDataAPI_get_min_temps(start, end, st, net) ==
  BqTemps(BigQueryWeatherDataAPI_get_weather_data(start, end, "TMIN", st, net),
          "tmin", "minTemp")

BigQueryWeatherDataAPI_get_max_temps(start, end, st, net) ==
  BqTemps(BigQueryWeatherDataAPI_get_weather_data(start, end, "TMAX", st, net),
          "tmax", "maxTemp")

BigQueryWeatherDataAPI_get_avg_temps(start, end, st, net) ==
  BqTemps(BigQueryWeatherDataAPI_get_weather_data(start, end, "TAVG", st, net),
          "tavg", "avgTemp")

\* ------------------------------------------------------ get_daily_temps
\* An exception raised by a get_*_temps call leaves get_daily_temps at once:
\* neither class catches anything.
AfterFetchSwallow(out, cur, next) == next

AfterFetchRetry(out, cur, next) == IF out.kind = "raise" THEN cur ELSE next

AfterFetch(out, cur, next) == IF out.kind = "raise" THEN "failed" ELSE next

Kept(out) == IF out.kind = "frame" THEN out ELSE NoFrame

Thrown(out) == IF out.kind = "raise" THEN out ELSE NoError

\* the record of one get_weather_data call: what was asked, answered and returned
Fetched(p, data_type, response, results) ==
  [provider |-> p, data_type |-> data_type, response |-> response,
   results |-> results]

Init ==
  /\ store \in Stores
  /\ pc = "idle"
  /\ provider = "none"
  /\ start_date = 1
  /\ end_date = 1
  /\ station = ATL_STATION_CODE
  /\ min_temps = NoFrame
  /\ max_temps = NoFrame
  /\ avg_temps = NoFrame
  /\ result = NoTable
  /\ error = NoError
  /\ calls = <<>>
  /\ last = [provider |-> "none"]
  /\ cpc = "idle"
  /\ cout = NoFrame

\* a caller invokes <provider>.get_daily_temps(start_date, end_date, station)
Call(p) ==
  /\ pc = "idle"
  /\ \E s \in Dates, e \in Dates, st \in Stations :
       /\ s <= e
       /\ start_date' = s
       /\ end_date' = e
       /\ station' = st
  /\ provider' = p
  /\ pc' = "min"
  /\ min_temps' = NoFrame
  /\ max_temps' = NoFrame
  /\ avg_temps' = NoFrame
  /\ result' = NoTable
  /\ error' = NoError
  /\ calls' = <<>>
  /\ last' = [provider |-> "none"]
  /\ UNCHANGED <<store, cpc, cout>>

RestCall == Call("rest")

BqCall == Call("bq")

\* get_daily_temps, statement by statement: each get_*_temps call is one step,
\* the last one together with the concat and the return.
RestMin ==
  /\ pc = "min"
  /\ provider = "rest"
  /\ \E net \in RestNets :
       LET out == WeatherDataAPI_get_min_temps(start_date, end_date, station, net)
       IN  /\ min_temps' = Kept(out)
           /\ error' = Thrown(out)
           /\ pc' = AfterFetch(out, "min", "max")
           /\ last' = Fetched("rest", "TMIN", requests_get(RestParams(start_date, end_date, "TMIN", station), net),
                    WeatherDataAPI_get_weather_data(start_date, end_date, "TMIN", station, net))
  /\ calls' = Append(calls, "TMIN")
  /\ UNCHANGED <<store, provider, start_date, end_date, station, max_temps, avg_temps,
                 result, cpc, cout>>

RestMax ==
  /\ pc = "max"
  /\ provider = "rest"
  /\ \E net \in RestNets :
       LET out == WeatherDataAPI_get_max_temps(start_date, end_date, station, net)
       IN  /\ max_temps' = Kept(out)
           /\ error' = Thrown(out)
           /\ pc' = AfterFetch(out, "max", "avg")
           /\ last' = Fetched("rest", "TMAX", requests_get(RestParams(start_date, end_date, "TMAX", station), net),
                    WeatherDataAPI_get_weather_data(start_date, end_date, "TMAX", station, net))
  /\ calls' = Append(calls, "TMAX")
  /\ UNCHANGED <<store, provider, start_date, end_date, station, min_temps, avg_temps,
                 result, cpc, cout>>

RestAvg ==
  /\ pc = "avg"
  /\ provider = "rest"
  /\ \E net \in RestNets :
       LET out == WeatherDataAPI_get_avg_temps(start_date, end_date, station, net)
       IN  /\ avg_temps' = Kept(out)
           /\ error' = Thrown(out)
           /\ pc' = AfterFetch(out, "avg", "done")
           /\ last' = Fetched("rest", "TAVG", requests_get(RestParams(start_date, end_date, "TAVG", station), net),
                    WeatherDataAPI_get_weather_data(start_date, end_date, "TAVG", station, net))
           /\ result' = IF pc' = "done"
                          THEN concat(<<min_temps, max_temps, Kept(out)>>)
                          ELSE NoTable
  /\ calls' = Append(calls, "TAVG")
  /\ UNCHANGED <<store, provider, start_date, end_date, station, min_temps, max_temps,
                 cpc, cout>>

BqMin ==
  /\ pc = "min"
  /\ provider = "bq"
  /\ \E net \in BqNets :
       LET out == BigQueryWeatherDataAPI_get_min_temps(start_date, end_date, station, net)
       IN  /\ min_temps' = Kept(out)
           /\ error' = Thrown(out)
           /\ pc' = AfterFetch(out, "min", "max")
           /\ last' = Fetched("bq", "TMIN", BqQuery(start_date, end_date, "TMIN", station),
                    BigQueryWeatherDataAPI_get_weather_data(start_date, end_date, "TMIN", station, net))
  /\ calls' = Append(calls, "TMIN")
  /\ UNCHANGED <<store, provider, start_date, end_date, station, max_temps, avg_temps,
                 result, cpc, cout>>

BqMax ==
  /\ pc = "max"
  /\ provider = "bq"
  /\ \E net \in BqNets :
       LET out == BigQueryWeatherDataAPI_get_max_temps(start_date, end_date, station, net)
       IN  /\ max_temps' = Kept(out)
           /\ error' = Thrown(out)
           /\ pc' = AfterFetch(out, "max", "avg")
           /\ last' = Fetched("bq", "TMAX", BqQuery(start_date, end_date, "TMAX", station),
                    BigQueryWeatherDataAPI_get_weather_data(start_date, end_date, "TMAX", station, net))
  /\ calls' = Append(calls, "TMAX")
  /\ UNCHANGED <<store, provider, start_date, end_date, station, min_temps, avg_temps,
                 result, cpc, cout>>

BqAvg ==
  /\ pc = "avg"
  /\ provider = "bq"
  /\ \E net \in BqNets :
       LET out == BigQueryWeatherDataAPI_get_avg_temps(start_date, end_date, station, net)
       IN  /\ avg_temps' = Kept(out)
           /\ error' = Thrown(out)
           /\ pc' = AfterFetch(out, "avg", "done")
           /\ last' = Fetched("bq", "TAVG", BqQuery(start_date, end_date, "TAVG", station),
                    BigQueryWeatherDataAPI_get_weather_data(start_date, end_date, "TAVG", station, net))
           /\ result' = IF pc' = "done"
                          THEN concat(<<min_temps, max_temps, Kept(out)>>)
                          ELSE NoTable
  /\ calls' = Append(calls, "TAVG")
  /\ UNCHANGED <<store, provider, start_date, end_date, station, min_temps, max_temps,
                 cpc, cout>>

\* the caller has its table or its exception; nothing outlives the call
Return ==
  /\ pc \in {"done", "failed"}
  /\ pc' = "idle"
  /\ provider' = "none"
  /\ start_date' = 1
  /\ end_date' = 1
  /\ station' = ATL_STATION_CODE
  /\ min_temps' = NoFrame
  /\ max_temps' = NoFrame
  /\ avg_temps' = NoFrame
  /\ result' = NoTable
  /\ error' = NoError
  /\ calls' = <<>>
  /\ last' = [provider |-> "none"]
  /\ UNCHANGED <<store, cpc, cout>>

Next ==
  \/ RestCall
  \/ RestMin
  \/ RestMax
  \/ RestAvg
  \/ BqCall
  \/ BqMin
  \/ BqMax
  \/ BqAvg
  \/ Return

Spec == Init /\ [][Next]_vars

\* ------------------------------------------- the conversions on their own
\* An archive of one unflagged observation of any value in -MaxRaw..MaxRaw.
ConvStores ==
  { {[id |-> ATL_STATION_CODE, date |-> 1, element |-> e, value |-> v, qflag |-> NULL]} :
      e \in DataTypes, v \in (-MaxRaw)..MaxRaw }

InitConv ==
  /\ store \in ConvStores
  /\ pc = "idle"
  /\ provider = "none"
  /\ start_date = 1
  /\ end_date = 1
  /\ station = ATL_STATION_CODE
  /\ min_temps = NoFrame
  /\ max_temps = NoFrame
  /\ avg_temps = NoFrame
  /\ result = NoTable
  /\ error = NoError
  /\ calls = <<>>
  /\ last = [provider |-> "none"]
  /\ cpc = "idle"
  /\ cout = NoFrame

Observed == CHOOSE r \in store : TRUE

ConvUnchanged ==
  UNCHANGED <<store, pc, provider, start_date, end_date, station, min_temps,
              max_temps, avg_temps, result, error, calls>>

OkNet == [status |-> 200, dense |-> FALSE]

ConvRestMin ==
  /\ cpc = "idle"
  /\ Observed.element = "TMIN"
  /\ cout' = WeatherDataAPI_get_min_temps(1, 1, ATL_STATION_CODE, OkNet)
  /\ last' = Fetched("rest", "TMIN",
                requests_get(RestParams(1, 1, "TMIN", ATL_STATION_CODE), OkNet),
                WeatherDataAPI_get_weather_data(1, 1, "TMIN", ATL_STATION_CODE, OkNet))
  /\ cpc' = "rest"
  /\ ConvUnchanged

ConvRestMax ==
  /\ cpc = "idle"
  /\ Observed.element = "TMAX"
  /\ cout' = WeatherDataAPI_get_max_temps(1, 1, ATL_STATION_CODE, OkNet)
  /\ last' = Fetched("rest", "TMAX",
                requests_get(RestParams(1, 1, "TMAX", ATL_STATION_CODE), OkNet),
                WeatherDataAPI_get_weather_data(1, 1, "TMAX", ATL_STATION_CODE, OkNet))
  /\ cpc' = "rest"
  /\ ConvUnchanged

ConvRestAvg ==
  /\ cpc = "idle"
  /\ Observed.element = "TAVG"
  /\ cout' = WeatherDataAPI_get_avg_temps(1, 1, ATL_STATION_CODE, OkNet)
  /\ last' = Fetched("rest", "TAVG",
                requests_get(RestParams(1, 1, "TAVG", ATL_STATION_CODE), OkNet),
                WeatherDataAPI_get_weather_data(1, 1, "TAVG", ATL_STATION_CODE, OkNet))
  /\ cpc' = "rest"
  /\ ConvUnchanged

ConvBqMin ==
  /\ cpc = "idle"
  /\ Observed.element = "TMIN"
  /\ cout' = BigQueryWeatherDataAPI_get_min_temps(1, 1, ATL_STATION_CODE, "ok")
  /\ last' = Fetched("bq", "TMIN", BqQuery(1, 1, "TMIN", ATL_STATION_CODE),
                BigQueryWeatherDataAPI_get_weather_data(1, 1, "TMIN", ATL_STATION_CODE, "ok"))
  /\ cpc' = "bq"
  /\ ConvUnchanged

ConvBqMax ==
  /\ cpc = "idle"
  /\ Observed.element = "TMAX"
  /\ cout' = BigQueryWeatherDataAPI_get_max_temps(1, 1, ATL_STATION_CODE, "ok")
  /\ last' = Fetched("bq", "TMAX", BqQuery(1, 1, "TMAX", ATL_STATION_CODE),
                BigQueryWeatherDataAPI_get_weather_data(1, 1, "TMAX", ATL_STATION_CODE, "ok"))
  /\ cpc' = "bq"
  /\ ConvUnchanged

ConvBqAvg ==
  /\ cpc = "idle"
  /\ Observed.element = "TAVG"
  /\ cout' = BigQueryWeatherDataAPI_get_avg_temps(1, 1, ATL_STATION_CODE, "ok")
  /\ last' = Fetched("bq", "TAVG", BqQuery(1, 1, "TAVG", ATL_STATION_CODE),
                BigQueryWeatherDataAPI_get_weather_data(1, 1, "TAVG", ATL_STATION_CODE, "ok"))
  /\ cpc' = "bq"
  /\ ConvUnchanged

NextConv ==
  \/ ConvRestMin
  \/ ConvRestMax
  \/ ConvRestAvg
  \/ ConvBqMin
  \/ ConvBqMax
  \/ ConvBqAvg

SpecConv == InitConv /\ [][NextConv]_vars

\* =================================================================== claims
Frames == <<min_temps, max_temps, avg_temps>>

DateSet(f) == Range(f.index)

HasNaN(f) == \E i \in 1..Len(f.values) : f.values[i] = NaN

\* C1: WeatherDataAPI.get_weather_data ends in an exception carrying the response
\* body for every response whose status is not 200, and then no frame or table
\* exists; it returns the parsed rows only when the status is exactly 200.
C1_NonOkStatusRaises ==
  last.provider = "rest" =>
    /\ last.response.status_code # 200 =>
         /\ last.results.kind = "raise"
         /\ last.results.what = last.response.content
         /\ result = NoTable
    /\ last.results.kind = "frame" =>
         /\ last.response.status_code = 200
         /\ last.results.rows = last.response.content

C1_Witness ==
  /\ last.provider = "rest"
  /\ last.response.status_code = 500
  /\ last.results.kind = "raise"
  /\ pc = "failed"

\* C2: get_daily_temps of either provider ends in the error of the first fetch
\* that fails and returns no table; a table exists only after three fetches that
\* all returned, and the frame of a failed metric is never filled in.
C2_FailureIsFatal ==
  /\ (last.provider # "none" /\ last.results.kind = "raise") =>
       /\ pc = "failed"
       /\ error = last.results
       /\ result = NoTable
       /\ Frames[Len(calls)] = NoFrame
  /\ result.kind = "table" =>
       /\ pc = "done"
       /\ Len(calls) = 3
       /\ error = NoError
       /\ last.results.kind = "frame"
       /\ \A k \in 1..3 : Frames[k].kind = "frame"

C2_Witness ==
  /\ provider = "bq"
  /\ pc = "failed"
  /\ Len(calls) = 2
  /\ last.results.kind = "raise"
  /\ min_temps.kind = "frame"
  /\ result = NoTable

\* C3: after every fetch of a call has been answered successfully (empty answers
\* and answers without the data type's field included), get_daily_temps returns
\* a table whose columns are exactly minTemp, maxTemp, avgTemp.
C3_AlwaysThreeColumns ==
  /\ pc = "failed" => last.results.kind = "raise"
  /\ pc = "done" =>
       /\ result.kind = "table"
       /\ Range(result.columns) = {"minTemp", "maxTemp", "avgTemp"}

\* C4: the rows of the combined table are the union of the three frames' dates;
\* each cell is the frame's value at that date, and missing (NaN) when the
\* frame has no such date.
C4_OuterJoin ==
  pc = "done" =>
    /\ DOMAIN result.rows = DateSet(min_temps) \cup DateSet(max_temps) \cup DateSet(avg_temps)
    /\ \A d \in DOMAIN result.rows : \A k \in 1..3 :
         /\ \A i \in 1..Len(Frames[k].index) :
              Frames[k].index[i] = d => result.rows[d][k] = Frames[k].values[i]
         /\ d \notin DateSet(Frames[k]) => result.rows[d][k] = NaN

C4_Witness ==
  /\ pc = "done"
  /\ \E d \in DOMAIN result.rows :
       /\ d \notin DateSet(min_temps)
       /\ d \in DateSet(max_temps)
       /\ d \in DateSet(avg_temps)
       /\ result.rows[d][1] = NaN
       /\ result.rows[d][2] # NaN

SameDates ==
  /\ DateSet(min_temps) = DateSet(max_temps)
  /\ DateSet(max_temps) = DateSet(avg_temps)

Complete ==
  /\ \A d \in DOMAIN result.rows : \A k \in 1..3 : result.rows[d][k] # NaN
  /\ Cardinality(DOMAIN result.rows) = Cardinality(DateSet(min_temps))

\* C5 as stated: whenever the three frames have the same dates, the table has no
\* missing cell and as many rows as there are dates.
C5_SameDatesComplete == (pc = "done" /\ SameDates) => Complete

\* C5: whenever the three frames have the same dates and none of them holds a
\* missing value, the table has no missing cell and as many rows as dates.
C5_SameDatesNoNaNComplete ==
  (pc = "done" /\ SameDates /\ \A k \in 1..3 : ~HasNaN(Frames[k])) => Complete

C5_Witness ==
  /\ pc = "done"
  /\ SameDates
  /\ Cardinality(DateSet(min_temps)) >= 1
  /\ \A k \in 1..3 : ~HasNaN(Frames[k])
  /\ Complete

\* the raw value of the only row of the last answer, in the given column
Raw(column) == last.results.rows[1][column]

\* x = v / 10 * 9 / 5 + 32 for a whole number v of tenths of a degree
IsTenthsFahrenheit(x, v) == x[2] > 0 /\ x[1] * 50 = (9 * v + 1600) * x[2]

\* C6 as stated: a WeatherDataAPI frame holds v/10*9/5+32 for the raw v of each
\* data type, and 37.98 for v = 211.
C6_RestFahrenheit3798 ==
  (cpc = "rest" /\ cout.kind = "frame") =>
    /\ IsTenthsFahrenheit(cout.values[1], Raw(last.data_type))
    /\ Raw(last.data_type) = 211 => cout.values[1][1] * 100 = 3798 * cout.values[1][2]

\* C6: a WeatherDataAPI frame holds v/10*9/5+32 for the raw v of each data
\* type, and 69.98 for v = 211.
C6_RestFahrenheit ==
  (cpc = "rest" /\ cout.kind = "frame") =>
    /\ Len(cout.values) = 1
    /\ IsTenthsFahrenheit(cout.values[1], Raw(last.data_type))
    /\ Raw(last.data_type) = 211 => cout.values[1][1] * 100 = 6998 * cout.values[1][2]

C6_Witness ==
  /\ cpc = "rest"
  /\ cout.kind = "frame"
  /\ Raw(last.data_type) = 211
  /\ cout.values[1] = <<3499, 50>>

\* C7: a BigQueryWeatherDataAPI frame holds v*9/5+32 for the value v the query
\* delivered (the stored value already divided by 10), for each data type; 77.0
\* for v = 25.0.
C7_BqFahrenheit ==
  (cpc = "bq" /\ cout.kind = "frame") =>
    LET v == Raw(lower(last.data_type))
        x == cout.values[1]
    IN  /\ Len(cout.values) = 1
        /\ x[2] > 0
        /\ x[1] * 5 * v[2] = (9 * v[1] + 160 * v[2]) * x[2]
        /\ v = <<25, 1>> => x = <<77, 1>>

C7_Witness ==
  /\ cpc = "bq"
  /\ cout.kind = "frame"
  /\ Raw(lower(last.data_type)) = <<25, 1>>
  /\ cout.values[1] = <<77, 1>>

\* the stored observations the warehouse query is to deliver
Wanted ==
  { r \in store :
      /\ year(r.date) = year(start_date)
      /\ r.id = station
      /\ r.qflag = NULL
      /\ r.element = last.data_type
      /\ start_date <= r.date
      /\ r.date <= end_date }

\* C8: BigQueryWeatherDataAPI.get_weather_data returns exactly the rows of the
\* table of start_date's year that match station, have no quality flag, have the
\* data type as element and lie in start..end inclusive, by ascending date; no
\* row of a later year is returned.
C8_QueryRows ==
  (last.provider = "bq" /\ last.results.kind = "frame") =>
    LET rows == last.results.rows
        col  == lower(last.data_type)
    IN  /\ { <<rows[i]["date"], rows[i][col]>> : i \in 1..Len(rows) }
             = { <<r.date, Frac(r.value, 10)>> : r \in Wanted }
        /\ Len(rows) = Cardinality(Wanted)
        /\ \A i, j \in 1..Len(rows) : i < j => rows[i]["date"] < rows[j]["date"]
        /\ \A i \in 1..Len(rows) : year(rows[i]["date"]) = year(start_date)

C8_Witness ==
  /\ last.provider = "bq"
  /\ last.results.kind = "frame"
  /\ year(start_date) < year(end_date)
  /\ Len(last.results.rows) = 2
  /\ \E r \in store :
       /\ r.id = station /\ r.qflag = NULL /\ r.element = last.data_type
       /\ r.date <= end_date
       /\ year(r.date) > year(start_date)

IsPrefix(q, full) == Len(q) <= Len(full) /\ \A i \in 1..Len(q) : q[i] = full[i]

\* C9: within one get_daily_temps the fetches go TMIN, TMAX, TAVG, each after the
\* previous one returned; each fetch is one call; a success has made 3 calls and a
\* failure at the k-th fetch exactly k, the last of them the one that failed.
C9_CallOrder ==
  /\ IsPrefix(calls, <<"TMIN", "TMAX", "TAVG">>)
  /\ pc \in {"idle", "min"} => calls = <<>>
  /\ pc = "max" => Len(calls) = 1 /\ min_temps.kind = "frame"
  /\ pc = "avg" => Len(calls) = 2 /\ min_temps.kind = "frame" /\ max_temps.kind = "frame"
  /\ pc = "done" => Len(calls) = 3 /\ \A k \in 1..3 : Frames[k].kind = "frame"
  /\ pc = "failed" =>
       /\ Len(calls) >= 1
       /\ last.data_type = calls[Len(calls)]
       /\ \A k \in 1..(Len(calls) - 1) : Frames[k].kind = "frame"
       /\ Frames[Len(calls)] = NoFrame

C9_Witness ==
  /\ pc = "failed"
  /\ calls = <<"TMIN", "TMAX">>
  /\ last.data_type = "TMAX"

\* what BigQueryWeatherDataAPI.get_daily_temps returns for the call at hand
BqDailyTemps ==
  concat(<<BigQueryWeatherDataAPI_get_min_temps(start_date, end_date, station, "ok"),
           BigQueryWeatherDataAPI_get_max_temps(start_date, end_date, station, "ok"),
           BigQueryWeatherDataAPI_get_avg_temps(start_date, end_date, station, "ok")>>)

\* no stored observation in the range that only one of the two providers sees
SameObservations ==
  \A r \in store :
    (r.id = station /\ start_date <= r.date /\ r.date <= end_date) => r.qflag = NULL

\* C10: for a range inside one year over which both providers see the same
\* observations, WeatherDataAPI.get_daily_temps, every request of which was
\* answered with status 200, ends with the table BigQueryWeatherDataAPI returns.
C10_ProvidersAgree ==
  ( /\ provider = "rest"
    /\ pc \in {"done", "failed"}
    /\ last.response.status_code = 200
    /\ year(start_date) = year(end_date)
    /\ SameObservations ) => result = BqDailyTemps

====
